---- MODULE Spec2Model ----
(***************************************************************************)
(* Model of the polling health-check probe of go-devops-lesson1.           *)
(*                                                                         *)
(* The repository holds three variants of the same program:                *)
(*   "main"    src/main.go                 (Content-Type check, ReadAll,   *)
(*                                          strings.Fields, float percent) *)
(*   "bufio"   src/unnamed/part_000:1-150  (one bufio Read of <= 1024      *)
(*                                          bytes, Split on ",", floored   *)
(*                                          integer percent)               *)
(*   "readall" src/unnamed/part_000:152-296 (ReadAll, Split on ",", float  *)
(*                                          percent)                       *)
(* Byte strings are sequences of one-character strings.                    *)
(***************************************************************************)
EXTENDS Integers, Sequences, FiniteSets, TLC

VARIABLES
    variant,        \* which of the three programs runs
    pc,             \* position of main's loop: "Idle" (blocked in select),
                    \* "Running" (inside checkMetrics), "Terminated"
    tickPending,    \* a tick is buffered in ticker.C (capacity 1)
    signalPending,  \* a signal is buffered in quit (capacity 1)
    signalAt,       \* observation: where the loop was when the signal last buffered arrived
    failuresCount,  \* main's failuresCount
    out,            \* lines written to the output sink since the loop last took a tick
    last,           \* observation: what the last completed cycle received and returned
    recent          \* observation: outcomes of the most recent cycles, oldest first

vars == <<variant, pc, tickPending, signalPending, signalAt, failuresCount, out, last, recent>>

Variants == {"main", "bufio", "readall"}

\* Consecutive failures a run of the model may accumulate (the counter itself is unbounded).
MaxFailures == 4

\* The escalation limit of checkMetrics.
FailureLimit == 3

\* Thresholds of the four rules.
LoadLimit == 30
MemoryLimit == 80
DiskLimit == 90
NetworkLimit == 90

\* Size of the read buffer of the bufio variant.
BufferSize == 1024

\* 1024 * 1024, the divisor of the disk and network payloads.
Mega == 1048576

(***************************************************************************)
(* Byte strings                                                            *)
(***************************************************************************)
DigitChars == <<"0", "1", "2", "3", "4", "5", "6", "7", "8", "9">>

IsDigit(c) == \E i \in 1..10 : DigitChars[i] = c

DigitValue(c) == (CHOOSE i \in 1..10 : DigitChars[i] = c) - 1

\* unicode.IsSpace on the characters the model's payloads use.
IsSpace(c) == c \in {" ", "\n", "\t", "\r"}

\* The decimal numeral of n >= 0 (how a server formats a metric).
RECURSIVE Numeral(_)
Numeral(n) ==
    IF n < 10 THEN <<DigitChars[n + 1]>>
    ELSE Numeral(n \div 10) \o <<DigitChars[(n % 10) + 1]>>

\* tokens joined by the separator sep (a byte string).
RECURSIVE Join(_, _)
Join(tokens, sep) ==
    IF tokens = <<>> THEN <<>>
    ELSE IF Len(tokens) = 1 THEN tokens[1]
    ELSE tokens[1] \o sep \o Join(Tail(tokens), sep)

Prefix(s, n) == SubSeq(s, 1, n)

Min(a, b) == IF a < b THEN a ELSE b

\* strings.Fields: the maximal runs of non-space characters, in order.
RECURSIVE FieldsFrom(_, _, _)
FieldsFrom(s, i, cur) ==
    IF i > Len(s) THEN (IF cur = <<>> THEN <<>> ELSE <<cur>>)
    ELSE IF IsSpace(s[i])
         THEN (IF cur = <<>> THEN <<>> ELSE <<cur>>) \o FieldsFrom(s, i + 1, <<>>)
         ELSE FieldsFrom(s, i + 1, Append(cur, s[i]))

Fields(s) == FieldsFrom(s, 1, <<>>)

\* strings.Split(s, ","): the pieces between commas, empty pieces included;
\* a string without a comma (the empty string too) is one piece.
RECURSIVE SplitFrom(_, _, _)
SplitFrom(s, i, cur) ==
    IF i > Len(s) THEN <<cur>>
    ELSE IF s[i] = ","
         THEN <<cur>> \o SplitFrom(s, i + 1, <<>>)
         ELSE SplitFrom(s, i + 1, Append(cur, s[i]))

Split(s) == SplitFrom(s, 1, <<>>)

\* Mutant of DigitsValue: the digits are weighted least significant first.
RECURSIVE DigitsValueReversed(_, _)
DigitsValueReversed(ds, acc) ==
    IF ds = <<>> THEN acc
    ELSE DigitsValueReversed(SubSeq(ds, 1, Len(ds) - 1),
                             acc * 10 + DigitValue(ds[Len(ds)]))

\* The value of a digit string, most significant digit first.
RECURSIVE DigitsValue(_, _)
DigitsValue(ds, acc) ==
    IF ds = <<>> THEN acc
    ELSE DigitsValue(Tail(ds), acc * 10 + DigitValue(ds[1]))

\* The decimal digits of 1<<63 - 1 and of 1<<63, the largest int of a 64-bit
\* build and the magnitude of the smallest.
MaxIntDigits ==
    <<"9", "2", "2", "3", "3", "7", "2", "0", "3", "6", "8", "5", "4", "7", "7", "5",
      "8", "0", "7">>

MinIntDigits == [MaxIntDigits EXCEPT ![Len(MaxIntDigits)] = "8"]

\* What stands for 1<<63 - 1, the value Atoi returns with a range error: the
\* largest integer the checker holds.  No payload of the model carries it.
ClampedInt == 2147483647

\* A digit string without its leading zeros (one digit is kept).
RECURSIVE StripZeros(_)
StripZeros(ds) ==
    IF Len(ds) > 1 /\ ds[1] = "0" THEN StripZeros(Tail(ds)) ELSE ds

\* a > b for digit strings of the same length.
Exceeds(a, b) ==
    \E i \in 1..Len(a) :
        /\ DigitValue(a[i]) > DigitValue(b[i])
        /\ \A j \in 1..(i - 1) : a[j] = b[j]

\* Whether the digits ds, negated or not, are outside the range of int.
OutOfRange(ds, neg) ==
    LET sig   == StripZeros(ds)
        limit == IF neg THEN MinIntDigits ELSE MaxIntDigits
    IN  \/ Len(sig) > Len(limit)
        \/ Len(sig) = Len(limit) /\ Exceeds(sig, limit)

\* strconv.Atoi: an optional sign, then one or more decimal digits and nothing
\* else.  On a syntax error the value is 0; a number outside the range of int
\* is a range error with the nearest int as value.  The numerals of the
\* model's payloads that are in range have at most seven digits.
Atoi(s) ==
    LET signed == s # <<>> /\ s[1] \in {"+", "-"}
        neg    == signed /\ s[1] = "-"
        ds     == IF signed THEN Tail(s) ELSE s
        good   == ds # <<>> /\ \A i \in 1..Len(ds) : IsDigit(ds[i])
        n      == DigitsValue(ds, 0)
    IN  IF ~good THEN [val |-> 0, ok |-> FALSE]
        ELSE IF OutOfRange(ds, neg)
        THEN [val |-> IF neg THEN 0 - ClampedInt - 1 ELSE ClampedInt, ok |-> FALSE]
        ELSE [val |-> IF neg THEN 0 - n ELSE n, ok |-> TRUE]

(***************************************************************************)
(* Metrics and errors                                                      *)
(***************************************************************************)
\* The fields of Metrics in declaration order, which is the order of the tokens.
FieldNames ==
    <<"LoadAverage", "RamTotalBytes", "RamUsageBytes", "DiskTotalBytes",
      "DiskUsageBytes", "NetworkBandwidthBytesPerSecond", "NetworkLoadBytesPerSecond">>

\* The number of metrics getMetrics expects.
FieldCount == 7

\* Metrics{}: every field zero.
ZeroMetrics == [f \in {FieldNames[i] : i \in 1..FieldCount} |-> 0]

\* A nil error, and the errors getMetrics returns.
NoError == [kind |-> "none", field |-> "", got |-> 0]

FetchError == [kind |-> "fetch", field |-> "", got |-> 0]

ContentTypeError == [kind |-> "content-type", field |-> "", got |-> 0]

ReadError == [kind |-> "read", field |-> "", got |-> 0]

CountError(n) == [kind |-> "count", field |-> "", got |-> n]

ParseError(f) == [kind |-> "parse", field |-> f, got |-> 0]

\* Mutant of parseFrom: the tokens are converted from the last field to the first.
RECURSIVE parseDown(_, _, _)
parseDown(values, m, i) ==
    IF i < 1 THEN [m |-> m, err |-> NoError]
    ELSE LET r  == Atoi(values[i])
             m2 == [m EXCEPT ![FieldNames[i]] = r.val]
         IN  IF ~r.ok THEN [m |-> m2, err |-> ParseError(FieldNames[i])]
             ELSE parseDown(values, m2, i - 1)

parseBackwards(values, m, i) == parseDown(values, m, FieldCount + 1 - i)

\* parseMetrics from token i on: each field is assigned what Atoi returned, and
\* the first token Atoi rejects ends the parse with the error of its field.
RECURSIVE parseFrom(_, _, _)
parseFrom(values, m, i) ==
    IF i > FieldCount THEN [m |-> m, err |-> NoError]
    ELSE LET r  == Atoi(values[i])
             m2 == [m EXCEPT ![FieldNames[i]] = r.val]
         IN  IF ~r.ok THEN [m |-> m2, err |-> ParseError(FieldNames[i])]
             ELSE parseFrom(values, m2, i + 1)

parseMetrics(values, m) == parseFrom(values, m, 1)

(***************************************************************************)
(* The HTTP exchange, as the environment decides it                        *)
(*   transportErr  http.Get returned an error                              *)
(*   contentType   the Content-Type header of the response                 *)
(*   body          the bytes of the body that arrive                       *)
(*   firstRead     how many of them the first Read of the body delivers    *)
(*   readErr       the body ends in a read error instead of EOF            *)
(***************************************************************************)
\* Whether the variant rejects the response for its Content-Type header.
contentTypeMismatch(v, r) == v = "main" /\ r.contentType # "text/plain"

\* The bytes the variant reads from the body, or a read error.
\* ioutil.ReadAll reads to EOF; the bufio variant does a single Read into a
\* buffer of BufferSize bytes, which hands over what the first Read of the body
\* delivered (an error or EOF shows only when that Read delivered nothing).
readBody(v, r) ==
    IF v = "bufio"
    THEN IF r.firstRead = 0
         THEN [data |-> <<>>, ok |-> ~r.readErr]
         ELSE [data |-> Prefix(r.body, Min(r.firstRead, BufferSize)), ok |-> TRUE]
    ELSE [data |-> IF r.readErr THEN <<>> ELSE r.body, ok |-> ~r.readErr]

\* The tokens of the payload: strings.Fields in main.go, strings.Split on ","
\* in the other two.
splitValues(v, data) == IF v = "main" THEN Fields(data) ELSE Split(data)

\* Mutant of wrongCount: only a payload with too few tokens is rejected.
tooFewOnly(values) == Len(values) < FieldCount

\* Whether getMetrics rejects the tokens for their number.
wrongCount(values) == Len(values) # FieldCount

getMetrics(v, r) ==
    IF r.transportErr THEN [m |-> ZeroMetrics, err |-> FetchError]
    ELSE IF contentTypeMismatch(v, r) THEN [m |-> ZeroMetrics, err |-> ContentTypeError]
    ELSE LET rd == readBody(v, r) IN
         IF ~rd.ok THEN [m |-> ZeroMetrics, err |-> ReadError]
         ELSE LET values == splitValues(v, rd.data) IN
              IF wrongCount(values)
              THEN [m |-> ZeroMetrics, err |-> CountError(Len(values))]
              ELSE parseMetrics(values, ZeroMetrics)

(***************************************************************************)
(* Evaluation                                                              *)
(* A float64 value is kept as the exact fraction num/den; on the payloads  *)
(* of this model the double arithmetic of the program yields the same      *)
(* comparisons and the same floors as the exact fraction.                  *)
(***************************************************************************)
Rat(n, d) == [num |-> n, den |-> d]

\* p > k for a fraction p and an integer k.
Greater(p, k) == IF p.den > 0 THEN p.num > k * p.den ELSE p.num < k * p.den

\* math.Floor of the fraction n/d.
Floor(n, d) == IF d > 0 THEN n \div d ELSE (0 - n) \div (0 - d)

\* Go's integer quotient a / b for b > 0, which truncates toward zero.
Quot(a, b) == IF a >= 0 THEN a \div b ELSE 0 - ((0 - a) \div b)

\* Mutant of calculatePercentage: a total of zero counts as fully used.
calculatePercentageFullOnZero(v, used, total) ==
    IF total = 0 THEN Rat(100, 1)
    ELSE IF v = "bufio" THEN Rat(Floor(used * 100, total), 1)
    ELSE Rat(used * 100, total)

\* calculatePercentage: float64 in main.go and the readall variant, a floored
\* int in the bufio variant.
calculatePercentage(v, used, total) ==
    IF total = 0 THEN Rat(0, 1)
    ELSE IF v = "bufio" THEN Rat(Floor(used * 100, total), 1)
    ELSE Rat(used * 100, total)

ramUsagePercentage(v, m) == calculatePercentage(v, m.RamUsageBytes, m.RamTotalBytes)

diskUsagePercentage(v, m) == calculatePercentage(v, m.DiskUsageBytes, m.DiskTotalBytes)

networkBandwidthUsagePercentage(v, m) ==
    calculatePercentage(v, m.NetworkLoadBytesPerSecond, m.NetworkBandwidthBytesPerSecond)

leftDiskMemoryMB(m) == Quot(m.DiskTotalBytes - m.DiskUsageBytes, Mega)

\* An int in main.go and the readall variant, a float64 in the bufio variant.
leftNetworkBandwidthMb(v, m) ==
    LET left == m.NetworkBandwidthBytesPerSecond - m.NetworkLoadBytesPerSecond
    IN  IF v = "bufio" THEN Rat(left * 8, Mega) ELSE Rat(Quot(left, Mega) * 8, 1)

\* One line of output: what it reports and the value it carries.
Line(k, val) == [kind |-> k, value |-> val]

loadTooHigh(m) == m.LoadAverage > LoadLimit

\* Mutant of memoryTooHigh: compared with the limit of the disk rule.
memoryTooHighAtDiskLimit(v, m) == Greater(ramUsagePercentage(v, m), DiskLimit)

memoryTooHigh(v, m) == Greater(ramUsagePercentage(v, m), MemoryLimit)

diskTooLow(v, m) == Greater(diskUsagePercentage(v, m), DiskLimit)

networkTooHigh(v, m) == Greater(networkBandwidthUsagePercentage(v, m), NetworkLimit)

\* Mutant of evaluate: the disk rule is applied first.
evaluateDiskFirst(v, m) ==
    (IF diskTooLow(v, m) THEN <<Line("Disk", Rat(leftDiskMemoryMB(m), 1))>> ELSE <<>>)
    \o (IF loadTooHigh(m) THEN <<Line("Load", Rat(m.LoadAverage, 1))>> ELSE <<>>)
    \o (IF memoryTooHigh(v, m) THEN <<Line("Memory", ramUsagePercentage(v, m))>> ELSE <<>>)
    \o (IF networkTooHigh(v, m)
        THEN <<Line("Network", leftNetworkBandwidthMb(v, m))>> ELSE <<>>)

\* The four rules of checkMetrics, in the order of its statements.
evaluate(v, m) ==
    (IF loadTooHigh(m) THEN <<Line("Load", Rat(m.LoadAverage, 1))>> ELSE <<>>)
    \o (IF memoryTooHigh(v, m) THEN <<Line("Memory", ramUsagePercentage(v, m))>> ELSE <<>>)
    \o (IF diskTooLow(v, m) THEN <<Line("Disk", Rat(leftDiskMemoryMB(m), 1))>> ELSE <<>>)
    \o (IF networkTooHigh(v, m)
        THEN <<Line("Network", leftNetworkBandwidthMb(v, m))>> ELSE <<>>)

\* Whether checkMetrics prints the error getMetrics returned: the two variants
\* of part_000 do, main.go does not (and main drops checkMetrics' result).
printsError(v) == v # "main"

\* The counter after a failed cycle, and after a successful one.
countFailure(fc) == fc + 1

\* Mutant of resetFailures: a success leaves the counter as it was.
keepFailures(fc) == fc

resetFailures(fc) == 0

\* Mutant of unavailable: reported only when the limit is reached, not beyond it.
unavailableOnce(fc) == fc = FailureLimit

\* Whether a failed cycle reports the statistics as unavailable.
unavailable(fc) == fc >= FailureLimit

\* Mutant of checkMetrics: the rules are applied to whatever getMetrics handed
\* back, also when it reported an error.
checkMetricsEvaluatesAlways(v, fc, r) ==
    LET g == getMetrics(v, r) IN
    IF g.err.kind # "none"
    THEN LET fc2 == countFailure(fc) IN
         [failuresCount |-> fc2,
          out |-> (IF printsError(v) THEN <<Line("Error", Rat(0, 1))>> ELSE <<>>)
                  \o (IF unavailable(fc2) THEN <<Line("Unavailable", Rat(0, 1))>> ELSE <<>>)
                  \o evaluate(v, g.m),
          m |-> g.m, err |-> g.err]
    ELSE [failuresCount |-> resetFailures(fc), out |-> evaluate(v, g.m),
          m |-> g.m, err |-> g.err]

\* checkMetrics(url, &failuresCount): the counter it leaves, the lines it
\* writes, and the metrics and error getMetrics handed it.
checkMetrics(v, fc, r) ==
    LET g == getMetrics(v, r) IN
    IF g.err.kind # "none"
    THEN LET fc2 == countFailure(fc) IN
         [failuresCount |-> fc2,
          out |-> (IF printsError(v) THEN <<Line("Error", Rat(0, 1))>> ELSE <<>>)
                  \o (IF unavailable(fc2) THEN <<Line("Unavailable", Rat(0, 1))>> ELSE <<>>),
          m |-> g.m, err |-> g.err]
    ELSE [failuresCount |-> resetFailures(fc), out |-> evaluate(v, g.m),
          m |-> g.m, err |-> g.err]

(***************************************************************************)
(* The responses the environment may give                                  *)
(***************************************************************************)
\* A complete, readable text/plain response with the given body.
Served(body) ==
    [transportErr |-> FALSE, contentType |-> "text/plain", body |-> body,
     firstRead |-> Len(body), readErr |-> FALSE]

Separators == {<<" ">>, <<",">>}

\* The payload of seven numbers (a tuple in field order) with separator sep.
Payload(nums, sep) == Join([i \in 1..Len(nums) |-> Numeral(nums[i])], sep)

\* Every combination of each rule just at its limit and above it;
\* pairs are <<total, used>>.
GridSnapshots ==
    {<<l, r[1], r[2], d[1], d[2], n[1], n[2]>> :
        l \in {30, 31}, r \in {<<5, 4>>, <<10, 9>>},
        d \in {<<10, 9>>, <<20, 19>>}, n \in {<<10, 9>>, <<20, 19>>}}

\* Zero totals, percentages between a limit and the next integer, the scenario
\* of the specification, everything at 50%, and usage above the total.
EdgeSnapshots ==
    {<<31, 0, 5, 0, 5, 0, 5>>, <<0, 0, 0, 0, 0, 0, 0>>,
     <<31, 0, 5, 20, 19, 20, 19>>, <<31, 10, 9, 0, 5, 20, 19>>,
     <<31, 10, 9, 20, 19, 0, 5>>,
     <<30, 21, 17, 10, 9, 10, 9>>, <<30, 5, 4, 11, 10, 10, 9>>,
     <<30, 5, 4, 10, 9, 11, 10>>,
     <<35, 1000, 900, 1000000, 950000, 1000000, 950000>>,
     <<15, 10, 5, 10, 5, 10, 5>>,
     <<0, 10, 20, 1048576, 3145729, 1048576, 3145729>>}

Snapshots == GridSnapshots \cup EdgeSnapshots

WellFormed == {Served(Payload(n, sep)) : n \in Snapshots, sep \in Separators}

\* Seven one-digit tokens with token i replaced by t.
Tokens7(i, t) == [k \in 1..7 |-> IF k = i THEN t ELSE <<DigitChars[k + 1]>>]

BadTokens == {<<"x">>, <<"1", "x">>, <<"-">>, <<>>, <<"1", ".", "5">>}

Malformed ==
    {Served(Join(Tokens7(i, t), sep)) : i \in 1..7, t \in BadTokens, sep \in Separators}
    \cup {Served(Join([k \in 1..7 |-> IF k \in {2, 5} THEN <<"x">> ELSE <<"1">>], sep)) :
            sep \in Separators}
    \cup {Served(Join([k \in 1..n |-> <<"1">>], sep)) : n \in {0, 1, 6, 8}, sep \in Separators}
    \cup {Served(Join(Tokens7(1, <<"3", "1">>), sep) \o <<"\n">>) : sep \in Separators}
    \cup {Served(Join(Tokens7(i, t), sep)) :
            i \in {1, 3}, t \in {<<"+", "9">>, <<"-", "9">>}, sep \in Separators}
    \cup {Served(Join(Tokens7(1, <<"3", "1">>), <<",", " ">>)),
          Served(Join(Tokens7(1, <<"3", "1">>), <<" ", " ">>))}

\* Responses that fail in transport or while reading, that carry another
\* Content-Type, or whose first Read delivers only part of the body.
Disturbed ==
    LET b == Payload(<<31, 10, 9, 20, 19, 20, 19>>, <<" ">>)
        c == Payload(<<31, 10, 9, 20, 19, 20, 19>>, <<",">>)
    IN  {[Served(<<>>) EXCEPT !.transportErr = TRUE]}
        \cup {[Served(x) EXCEPT !.readErr = TRUE] : x \in {<<>>, b, c}}
        \cup {[Served(x) EXCEPT !.contentType = t] :
                x \in {b, c}, t \in {"text/html", "text/plain; charset=utf-8", ""}}
        \cup {[Served(x) EXCEPT !.firstRead = n] : x \in {b, c}, n \in {1, Len(b) - 1}}

\* Payloads with a number beyond the range of int: 1<<63, and 10^19.
BigTokens ==
    {MinIntDigits,
     <<"1", "0", "0", "0", "0", "0", "0", "0", "0", "0", "0", "0", "0", "0", "0", "0",
       "0", "0", "0", "0">>}

Oversized ==
    {Served(Join(Tokens7(i, t), sep)) : i \in {1, 4}, t \in BigTokens, sep \in Separators}

Responses == WellFormed \cup Malformed \cup Disturbed \cup Oversized

(***************************************************************************)
(* The loop of main                                                        *)
(***************************************************************************)
NoResponse == Served(<<>>)

NoCycle ==
    [done |-> FALSE, resp |-> NoResponse, m |-> ZeroMetrics, err |-> NoError, before |-> 0,
     afterSignal |-> FALSE]

\* The outcomes of the last MaxFailures cycles, the newest last.
Remember(h, o) ==
    IF Len(h) < MaxFailures THEN Append(h, o) ELSE Append(Tail(h), o)

Init ==
    /\ variant \in Variants
    /\ pc = "Idle"
    /\ tickPending = FALSE
    /\ signalPending = FALSE
    /\ signalAt = ""
    /\ failuresCount = 0
    /\ out = <<>>
    /\ last = NoCycle
    /\ recent = <<>>

\* The ticker sends on ticker.C, which holds one tick; a tick that finds it
\* full is dropped.
TickerFire ==
    /\ pc # "Terminated"
    /\ tickPending' = TRUE
    /\ UNCHANGED <<variant, pc, signalPending, signalAt, failuresCount, out, last, recent>>

\* Mutant of SignalDeliver: the signal is not caught and ends the process at once.
SignalKills ==
    /\ pc # "Terminated"
    /\ pc' = "Terminated"
    /\ UNCHANGED <<variant, tickPending, signalPending, signalAt, failuresCount, out,
                   last, recent>>

\* Mutant of SignalDeliver: quit has no buffer, so a signal is kept only when
\* it finds the loop at its select.
SignalNeedsReceiver ==
    /\ pc # "Terminated"
    /\ signalPending' = (signalPending \/ pc = "Idle")
    /\ signalAt' = IF signalPending THEN signalAt ELSE pc
    /\ UNCHANGED <<variant, pc, tickPending, failuresCount, out, last, recent>>

\* SIGINT or SIGTERM is delivered: signal.Notify sends on quit without
\* blocking, so a signal that finds the channel full is dropped.
SignalDeliver ==
    /\ pc # "Terminated"
    /\ signalPending' = TRUE
    /\ signalAt' = IF signalPending THEN signalAt ELSE pc
    /\ UNCHANGED <<variant, pc, tickPending, failuresCount, out, last, recent>>

\* Mutant of SelectTick: the tick that starts the cycle stays in ticker.C.
SelectTickLeavesTick ==
    /\ pc = "Idle"
    /\ tickPending
    /\ pc' = "Running"
    /\ out' = <<>>
    /\ last' = [NoCycle EXCEPT !.afterSignal = signalPending]
    /\ UNCHANGED <<variant, tickPending, signalPending, signalAt, failuresCount, recent>>

\* Mutant of SelectTick: a tick starts a cycle wherever the loop is.
SelectTickAnywhere ==
    /\ tickPending
    /\ tickPending' = FALSE
    /\ pc' = "Running"
    /\ out' = <<>>
    /\ last' = [NoCycle EXCEPT !.afterSignal = signalPending]
    /\ UNCHANGED <<variant, signalPending, signalAt, failuresCount, recent>>

\* case <-ticker.C: main calls checkMetrics, which blocks in http.Get.
SelectTick ==
    /\ pc = "Idle"
    /\ tickPending
    /\ tickPending' = FALSE
    /\ pc' = "Running"
    /\ out' = <<>>
    /\ last' = [NoCycle EXCEPT !.afterSignal = signalPending]
    /\ UNCHANGED <<variant, signalPending, signalAt, failuresCount, recent>>

\* Mutant of afterCycle: main returns when checkMetrics reports an error.
exitOnError(err) == IF err.kind # "none" THEN "Terminated" ELSE "Idle"

\* Where the loop goes when checkMetrics has returned err: main discards the
\* result and selects again.
afterCycle(err) == "Idle"

\* The exchange ends with response r and checkMetrics runs to its return.
CheckMetricsReturn ==
    /\ pc = "Running"
    /\ \E r \in Responses :
        LET res    == checkMetrics(variant, failuresCount, r)
            failed == res.err.kind # "none"
        IN  /\ failed => failuresCount < MaxFailures
            /\ failuresCount' = res.failuresCount
            /\ out' = res.out
            /\ last' = [done |-> TRUE, resp |-> r, m |-> res.m, err |-> res.err,
                        before |-> failuresCount, afterSignal |-> last.afterSignal]
            /\ recent' = Remember(recent, IF failed THEN "fail" ELSE "ok")
            /\ pc' = afterCycle(res.err)
    /\ UNCHANGED <<variant, tickPending, signalPending, signalAt>>

\* Mutant of SelectQuit: quit is looked at only when a tick has arrived.
SelectQuitOnTick ==
    /\ pc = "Idle"
    /\ signalPending
    /\ tickPending
    /\ signalPending' = FALSE
    /\ pc' = "Terminated"
    /\ out' = IF variant = "main" THEN Append(out, Line("Shutdown", Rat(0, 1))) ELSE out
    /\ UNCHANGED <<variant, tickPending, signalAt, failuresCount, last, recent>>

\* case <-quit: main returns (main.go logs "Shutting down..." first).
SelectQuit ==
    /\ pc = "Idle"
    /\ signalPending
    /\ signalPending' = FALSE
    /\ pc' = "Terminated"
    /\ out' = IF variant = "main" THEN Append(out, Line("Shutdown", Rat(0, 1))) ELSE out
    /\ UNCHANGED <<variant, tickPending, signalAt, failuresCount, last, recent>>

Next == TickerFire \/ SignalDeliver \/ SelectTick \/ CheckMetricsReturn \/ SelectQuit

Spec == Init /\ [][Next]_vars

\* select takes a case that is ready; nothing bounds the time http.Get takes.
FairSpec == Spec /\ WF_vars(SelectQuit) /\ WF_vars(SelectTick)

\* The ticker fires only while no cycle is in flight: every cycle completes
\* before the next tick.
TickerFireBetweenCycles == pc = "Idle" /\ TickerFire

PromptNext ==
    TickerFireBetweenCycles \/ SignalDeliver \/ SelectTick \/ CheckMetricsReturn
        \/ SelectQuit

\* The loop when the endpoint always answers within the ticker's period.
PromptSpec == Init /\ [][PromptNext]_vars

\* select chooses at random among the cases that are ready, so a signal that
\* is in quit every time the loop comes back to the select is taken sooner or
\* later; nothing bounds the time http.Get takes, so a cycle may never return.
SignalSpec == Spec /\ SF_vars(SelectQuit)

(***************************************************************************)
(* Properties                                                              *)
(***************************************************************************)
\* The number of failures at the end of a history of outcomes.
RECURSIVE TrailingFailures(_)
TrailingFailures(h) ==
    IF h = <<>> \/ h[Len(h)] # "fail" THEN 0
    ELSE 1 + TrailingFailures(SubSeq(h, 1, Len(h) - 1))

Kinds(lines) == [i \in 1..Len(lines) |-> lines[i].kind]

Has(lines, k) == \E i \in 1..Len(lines) : lines[i].kind = k

CycleFailed == last.done /\ last.err.kind # "none"

CycleSucceeded == last.done /\ last.err.kind = "none"

\* C1: the failure counter always equals the number of consecutive failed
\* cycles since the last successful one (or since the start), it is never
\* negative, and only the return of a cycle changes it.
C1_CounterIsFailureStreak ==
    /\ [](failuresCount = TrailingFailures(recent) /\ failuresCount >= 0)
    /\ [][failuresCount' # failuresCount => pc = "Running" /\ last'.done]_vars

\* A failure after two failures and a success counts as the first again.
C1_Witness ==
    recent = <<"fail", "fail", "ok", "fail">> /\ failuresCount = 1

\* C2: a cycle writes the "unavailable" line exactly when it fails as the third
\* or a later failure in a row; writing it leaves the counter at or above the
\* limit and the loop able to take the next tick.
C2_UnavailableIffThirdFailure ==
    /\ last.done =>
         (Has(out, "Unavailable") <=> (CycleFailed /\ TrailingFailures(recent) >= FailureLimit))
    /\ Has(out, "Unavailable") => failuresCount >= FailureLimit
    /\ (Has(out, "Unavailable") /\ pc = "Idle" /\ tickPending) => ENABLED SelectTick

\* The fourth failure in a row reports again.
C2_Witness ==
    /\ recent = <<"fail", "fail", "fail", "fail">>
    /\ Has(out, "Unavailable")
    /\ pc = "Idle"

\* C3: the loop terminates only by taking a buffered signal at its select; a
\* failed cycle, whatever the count of failures, leaves it at the select, where
\* a pending tick starts the next cycle.
C3_OnlySignalTerminates ==
    /\ [][(pc' = "Terminated" /\ pc # "Terminated") =>
            (pc = "Idle" /\ signalPending /\ ~signalPending')]_vars
    /\ []((CycleFailed /\ pc # "Terminated") =>
            (pc = "Idle" /\ (tickPending => ENABLED SelectTick)))

\* A cycle is under way after the limit of failures was reached, no signal in sight.
C3_Witness ==
    pc = "Running" /\ failuresCount >= FailureLimit /\ ~signalPending

\* C4: with a signal buffered at the select the loop can terminate at once,
\* whether or not a tick is buffered, and when none is buffered it does
\* terminate unless a new tick fires first: no tick is needed to terminate.
C4_IdleSignalTerminates ==
    /\ []((pc = "Idle" /\ signalPending) => ENABLED SelectQuit)
    /\ (pc = "Idle" /\ signalPending /\ ~tickPending) ~> (pc = "Terminated" \/ tickPending)

\* Terminated by a signal that arrived at the select, with no tick buffered
\* and none ever taken.
C4_Witness ==
    pc = "Terminated" /\ signalAt = "Idle" /\ ~tickPending /\ recent = <<>>

\* C5: while a cycle runs the loop does not terminate, a signal that arrives is
\* kept and changes nothing the cycle writes, and termination is a step from
\* the select.
C5_RunningNotInterrupted ==
    [][/\ pc = "Running" => pc' \in {"Running", "Idle"}
       /\ (pc = "Running" /\ pc' = "Running") =>
             (UNCHANGED <<failuresCount, out, last, recent>>
              /\ (signalPending => signalPending'))
       /\ (pc = "Running" /\ pc' = "Idle") =>
             (last'.done /\ UNCHANGED <<signalPending, signalAt>>)
       /\ (pc' = "Terminated" /\ pc # "Terminated") => pc = "Idle"]_vars

\* A cycle has completed with the signal that arrived during it still buffered.
C5_Witness ==
    pc = "Idle" /\ last.done /\ signalPending /\ signalAt = "Running"

\* The lines of the last cycle: everything written but the shutdown message.
CycleLines == SelectSeq(out, LAMBDA l : l.kind # "Shutdown")

RuleOrder == <<"Load", "Memory", "Disk", "Network">>

Rank(k) == CHOOSE i \in 1..Len(RuleOrder) : RuleOrder[i] = k

\* The metrics record of seven numbers in field order.
MetricsOf(nums) == [f \in DOMAIN ZeroMetrics |-> nums[CHOOSE i \in 1..FieldCount : FieldNames[i] = f]]

\* C6: a failed cycle writes at least one line in that cycle.
C6_EveryFailureReported ==
    CycleFailed => (Has(CycleLines, "Error") \/ Has(CycleLines, "Unavailable"))

\* C7: a successful cycle writes only alerts, each rule at most once and in the
\* order Load, Memory, Disk, Network.
C7_AlertsInRuleOrder ==
    CycleSucceeded =>
        LET ks == Kinds(CycleLines) IN
        /\ \A i \in 1..Len(ks) : \E j \in 1..Len(RuleOrder) : RuleOrder[j] = ks[i]
        /\ \A i, j \in 1..Len(ks) : i < j => Rank(ks[i]) < Rank(ks[j])
        /\ Len(ks) <= Len(RuleOrder)

\* Memory and Network fire without Load and Disk.
C7_Witness ==
    CycleSucceeded /\ Kinds(CycleLines) = <<"Memory", "Network">>

\* C8: in a successful cycle each rule fires exactly when its value is strictly
\* above its limit: Load iff loadAverage > 30, and for the three ratios iff
\* total # 0 and used * 100 > limit * total.
C8_RulesFireAtStrictThreshold ==
    CycleSucceeded =>
        LET m == last.m IN
        /\ Has(CycleLines, "Load") <=> m.LoadAverage > LoadLimit
        /\ Has(CycleLines, "Memory") <=>
              (m.RamTotalBytes # 0 /\ m.RamUsageBytes * 100 > MemoryLimit * m.RamTotalBytes)
        /\ Has(CycleLines, "Disk") <=>
              (m.DiskTotalBytes # 0 /\ m.DiskUsageBytes * 100 > DiskLimit * m.DiskTotalBytes)
        /\ Has(CycleLines, "Network") <=>
              (m.NetworkBandwidthBytesPerSecond # 0
               /\ m.NetworkLoadBytesPerSecond * 100
                    > NetworkLimit * m.NetworkBandwidthBytesPerSecond)

\* C9: calculatePercentage is 0 for a total of 0 whatever the usage, and a rule
\* whose total is 0 does not fire.
C9_ZeroTotalNeverAlerts ==
    CycleSucceeded =>
        LET m == last.m IN
        /\ m.RamTotalBytes = 0 =>
              (ramUsagePercentage(variant, m) = Rat(0, 1) /\ ~Has(CycleLines, "Memory"))
        /\ m.DiskTotalBytes = 0 =>
              (diskUsagePercentage(variant, m) = Rat(0, 1) /\ ~Has(CycleLines, "Disk"))
        /\ m.NetworkBandwidthBytesPerSecond = 0 =>
              (networkBandwidthUsagePercentage(variant, m) = Rat(0, 1)
               /\ ~Has(CycleLines, "Network"))

\* All three totals are 0 with usage above 0, and only Load fires.
C9_Witness ==
    /\ CycleSucceeded
    /\ last.m = MetricsOf(<<31, 0, 5, 0, 5, 0, 5>>)
    /\ Kinds(CycleLines) = <<"Load">>

\* C10: the scenario snapshot yields exactly the four alerts Load, Memory, Disk,
\* Network in this order.
C10_ScenarioFourAlerts ==
    (CycleSucceeded
     /\ last.m = MetricsOf(<<35, 1000, 900, 1000000, 950000, 1000000, 950000>>))
        => Kinds(CycleLines) = RuleOrder

\* The scenario has been received and evaluated.
C10_Witness ==
    /\ CycleSucceeded
    /\ last.m = MetricsOf(<<35, 1000, 900, 1000000, 950000, 1000000, 950000>>)
    /\ Len(CycleLines) = 4

\* The exchange of the last cycle handed getMetrics the bytes of a body.
Fetched == last.done /\ last.err.kind \notin {"fetch", "content-type", "read"}

\* The bytes the last cycle read from the body: the payload it parsed.
RawBytes == readBody(variant, last.resp).data

\* The number of fields of a payload: one more than its commas, or the number
\* of places where a run of non-space characters begins.
CommaFieldCount(s) == 1 + Cardinality({i \in 1..Len(s) : s[i] = ","})

WordCount(s) ==
    Cardinality({i \in 1..Len(s) : ~IsSpace(s[i]) /\ (i = 1 \/ IsSpace(s[i - 1]))})

FieldCountOf(v, s) == IF v = "main" THEN WordCount(s) ELSE CommaFieldCount(s)

AlertKinds == {RuleOrder[i] : i \in 1..Len(RuleOrder)}

NoAlerts == \A i \in 1..Len(CycleLines) : CycleLines[i].kind \notin AlertKinds

\* The last cycle counted as exactly one failure.
CountedOnce ==
    /\ recent # <<>> /\ recent[Len(recent)] = "fail"
    /\ failuresCount = last.before + 1

\* C11: a payload whose number of fields is not 7 fails the cycle with the
\* field-count error, with no field converted, no alert written, and the
\* counter one higher.
C11_WrongFieldCountFails ==
    (Fetched /\ FieldCountOf(variant, RawBytes) # FieldCount) =>
        /\ last.err = CountError(FieldCountOf(variant, RawBytes))
        /\ last.m = ZeroMetrics
        /\ NoAlerts
        /\ CountedOnce

\* Eight fields after two earlier failures: the third failure, nothing converted.
C11_Witness ==
    /\ Fetched
    /\ FieldCountOf(variant, RawBytes) = 8
    /\ last.err.kind = "count"
    /\ failuresCount = 3

\* A comma-separated payload has an empty field: it is empty, begins or ends
\* with a comma, or has two commas in a row.
HasEmptyPiece(s) ==
    \/ s = <<>>
    \/ s[1] = "," \/ s[Len(s)] = ","
    \/ \E i \in 1..(Len(s) - 1) : s[i] = "," /\ s[i + 1] = ","

\* The payload splits into exactly seven tokens, none of them empty.
SevenNonEmpty(v, s) ==
    IF v = "main" THEN WordCount(s) = FieldCount
    ELSE CommaFieldCount(s) = FieldCount /\ ~HasEmptyPiece(s)

\* C12: a payload that does not split into exactly seven non-empty tokens
\* fails with the field-count error, also when it has seven positions of which
\* one is empty.
C12_EmptyTokenIsCountError ==
    (Fetched /\ ~SevenNonEmpty(variant, RawBytes)) => last.err.kind = "count"

\* The tokens the last cycle split its payload into.
Tokens == splitValues(variant, RawBytes)

\* A token is the decimal numeral of an int: an optional sign and one or more
\* digits, within the range of int.
IsIntNumeral(tok) ==
    /\ tok # <<>>
    /\ LET neg  == tok[1] = "-"
           body == IF tok[1] \in {"+", "-"} THEN Tail(tok) ELSE tok
       IN  /\ body # <<>>
           /\ \A i \in 1..Len(body) :
                 body[i] \in {"0", "1", "2", "3", "4", "5", "6", "7", "8", "9"}
           /\ ~OutOfRange(body, neg)

Offending == {i \in 1..Len(Tokens) : ~IsIntNumeral(Tokens[i])}

FirstOffending == CHOOSE i \in Offending : \A j \in Offending : i <= j

\* C13: when a payload of seven tokens has a token that is not the numeral of
\* an int, the cycle fails with the conversion error that names the field of
\* the first such token in field order, and counts as one failure.
C13_FirstBadFieldNamed ==
    (Fetched /\ Len(Tokens) = FieldCount /\ Offending # {}) =>
        /\ last.err.kind = "parse"
        /\ last.err.field = FieldNames[FirstOffending]
        /\ NoAlerts
        /\ CountedOnce

\* The second and the fifth token are not numbers: RamTotalBytes is named.
C13_Witness ==
    /\ Fetched
    /\ Len(Tokens) = FieldCount
    /\ Offending = {2, 5}
    /\ last.err.field = "RamTotalBytes"

\* C14: a failed cycle is handed back no parsed field value: with an error
\* getMetrics returns the zero Metrics, also when the conversion failed at a
\* later field.
C14_NoPartialSnapshot ==
    CycleFailed => last.m = ZeroMetrics

\* A token is a non-negative decimal integer: one or more digits.
DigitsOnly(tok) ==
    /\ tok # <<>>
    /\ \A i \in 1..Len(tok) :
          tok[i] \in {"0", "1", "2", "3", "4", "5", "6", "7", "8", "9"}

\* The payload the last cycle read is seven non-negative integers separated
\* by the variant's delimiter, and nothing else.
SevenNaturals ==
    /\ Fetched
    /\ SevenNonEmpty(variant, RawBytes)
    /\ Len(Tokens) = FieldCount
    /\ \A i \in 1..FieldCount : DigitsOnly(Tokens[i])

\* The cycle succeeded and field i of its snapshot, written in decimal, is
\* token i of the payload (leading zeros aside), for every i.
ParsedBack ==
    /\ last.err = NoError
    /\ \A i \in 1..FieldCount :
          Numeral(last.m[FieldNames[i]]) = StripZeros(Tokens[i])

\* C15 as stated: every payload of seven non-negative integers parses, and
\* the snapshot holds exactly those integers in field order.
C15_AnyNaturalsParseBack ==
    SevenNaturals => ParsedBack

\* C15: every payload of seven non-negative integers that are each within the
\* range of int parses, and the snapshot holds exactly those integers in
\* field order.
C15_IntNaturalsParseBack ==
    (SevenNaturals /\ \A i \in 1..FieldCount : ~OutOfRange(Tokens[i], FALSE))
        => ParsedBack

\* The scenario payload, with numbers of two to seven digits, parsed back.
C15_Witness ==
    /\ SevenNaturals
    /\ CycleSucceeded
    /\ last.m.LoadAverage = 35
    /\ last.m.RamUsageBytes = 900
    /\ last.m.DiskTotalBytes = 1000000
    /\ last.m.NetworkLoadBytesPerSecond = 950000

\* Content-Type headers a server may send with the same body.
ContentTypes == {"text/plain", "text/plain; charset=utf-8", "text/html", ""}

\* C16: the content type of a response is not interpreted: had the response
\* of the last cycle, received and read without error, carried any other
\* Content-Type with the same body, the cycle would have ended the same way
\* (success or failure, counter, lines written).
C16_ContentTypeIgnored ==
    (last.done /\ ~last.resp.transportErr /\ ~last.resp.readErr) =>
        \A t \in ContentTypes :
            LET other == checkMetrics(variant, last.before,
                                      [last.resp EXCEPT !.contentType = t])
                same  == checkMetrics(variant, last.before, last.resp)
            IN  /\ (other.err = NoError) <=> CycleSucceeded
                /\ other.failuresCount = failuresCount
                /\ other.out = same.out

\* C17: the loop is always at its select (Idle), in a cycle (Running) or has
\* returned (Terminated); it moves only from Idle to Running by taking a tick,
\* from Running to Idle by the return of the cycle, and from Idle to
\* Terminated by taking the signal.  No tick is taken while a cycle runs, only
\* the return of the running cycle changes the failure counter, and after
\* Terminated nothing starts or changes.
C17_OneCycleStateMachine ==
    /\ [](pc \in {"Idle", "Running", "Terminated"})
    /\ [](pc = "Running" => ~ENABLED SelectTick)
    /\ [][pc' # pc =>
            \/ pc = "Idle" /\ pc' = "Running" /\ tickPending /\ ~tickPending'
                 /\ ~last'.done
            \/ pc = "Running" /\ pc' = "Idle" /\ ~last.done /\ last'.done
            \/ pc = "Idle" /\ pc' = "Terminated" /\ signalPending]_vars
    /\ [][last' # last => pc' # pc]_vars
    /\ [][failuresCount' # failuresCount => pc = "Running" /\ pc' = "Idle"]_vars
    /\ [][pc = "Terminated" => UNCHANGED vars]_vars

\* The loop has returned after two cycles, with a tick left in the channel
\* that starts nothing.
C17_Witness ==
    pc = "Terminated" /\ tickPending /\ last.done /\ Len(recent) = 2

\* C18: the rules are applied only to the snapshot of a successful cycle: a
\* failed cycle writes failure diagnostics and no alert, a successful cycle
\* writes alerts and no failure diagnostic, and the alerts of a successful
\* cycle are those of its own response whatever the cycles before it left
\* behind.
C18_SnapshotOnlyOnSuccess ==
    /\ CycleFailed =>
         \A i \in 1..Len(CycleLines) : CycleLines[i].kind \in {"Error", "Unavailable"}
    /\ CycleSucceeded =>
         /\ \A i \in 1..Len(CycleLines) : CycleLines[i].kind \in AlertKinds
         /\ \A fc \in 0..MaxFailures :
               checkMetrics(variant, fc, last.resp).out = CycleLines

\* A cycle failed at a later field after a load of 31 was converted: no Load
\* alert is written.
C18_Witness ==
    /\ CycleFailed
    /\ last.err.kind = "parse"
    /\ last.m.LoadAverage = 31
    /\ ~Has(out, "Load")

\* The loop is at its select with the signal that arrived during a cycle
\* still in quit: the cycle that was in flight has completed.
SignalOutlivedCycle == pc = "Idle" /\ signalPending /\ signalAt = "Running"

\* C19 as stated: a signal that arrived during a cycle is kept, and once that
\* cycle has completed the loop eventually terminates.
C19_TerminatesOnceCycleCompletes ==
    /\ [](signalAt = "Running" => (signalPending \/ pc = "Terminated"))
    /\ SignalOutlivedCycle ~> pc = "Terminated"

\* C19: a signal that arrives during a cycle stays in quit until the loop
\* takes it, the loop cannot take it before the cycle returns, and the loop
\* eventually terminates unless some cycle, the one in flight or one started
\* before the signal is taken, never returns.
C19_SignalKeptUntilTaken ==
    /\ [](signalAt = "Running" => (signalPending \/ pc = "Terminated"))
    /\ [](pc = "Running" => ~ENABLED SelectQuit)
    /\ \/ <>[](pc = "Running")
       \/ (pc = "Running" /\ signalPending) ~> pc = "Terminated"

\* Terminated by a signal that arrived during a cycle, after that cycle
\* completed.
C19_Witness ==
    pc = "Terminated" /\ signalAt = "Running" /\ last.done /\ ~signalPending

\* A step that starts a cycle with the signal already in quit.
StartsAfterSignal == pc = "Idle" /\ pc' = "Running" /\ signalPending

\* C20 as stated: with a tick and the signal both ready the select may take
\* either, and when no tick fires during a cycle at most one cycle starts
\* after the signal was delivered: a cycle that starts with the signal in quit
\* never follows one that did.
C20_OneCycleAfterSignal ==
    /\ []((pc = "Idle" /\ tickPending /\ signalPending) =>
            (ENABLED SelectTick /\ ENABLED SelectQuit))
    /\ [][StartsAfterSignal => ~last.afterSignal]_vars

\* C20: with a tick and the signal both ready the select may take either, and
\* when no tick fires during a cycle, a cycle that started after the signal
\* returns to a select where the tick channel is empty and quit is the only
\* ready case; a second cycle after the signal starts only from a tick that
\* fires before the select has taken the signal.
C20_QuitOnlyAfterLateCycle ==
    /\ []((pc = "Idle" /\ tickPending /\ signalPending) =>
            (ENABLED SelectTick /\ ENABLED SelectQuit))
    /\ [][(pc = "Running" /\ pc' = "Idle" /\ last'.afterSignal) =>
            (signalPending' /\ ~tickPending')]_vars
    /\ []((pc = "Idle" /\ signalPending /\ ~tickPending) =>
            (ENABLED SelectQuit /\ ~ENABLED SelectTick))

\* A cycle that started after the signal has returned and the loop has
\* terminated without another tick.
C20_Witness ==
    pc = "Terminated" /\ last.done /\ last.afterSignal /\ ~tickPending
====
